---- MODULE Spec2Model ----
(***************************************************************************)
(* Sales Forecast dashboard (src/app.py): the prediction table, the two    *)
(* lookup functions predict_sales and get_sample_items, and the script     *)
(* main() that Streamlit re-runs from top to bottom on every interaction.  *)
(*                                                                         *)
(* Quantities (item_cnt_month) are modelled as integers; the claims are    *)
(* about counting, summing and ordering, which integers exercise exactly.  *)
(***************************************************************************)
EXTENDS Integers, Sequences, FiniteSets, TLC

\* ---------------------------------------------------------------- bounds
MaxRows == 2        \* small tables: up to MaxRows arbitrary rows
MaxItem == 1        \* small tables: item_id in 0..MaxItem
MaxShop == 1        \* small tables: shop_id in 1..MaxShop
MaxQty == 1         \* small and deep tables: item_cnt_month in 0..MaxQty
MaxDeepRows == 6    \* deep tables: MaxDeepRows rows of one or two items
MaxDistinct == 14   \* wide tables: 1 .. MaxDistinct distinct items

\* ------------------------------------------------------ program constants
TopN == 5           \* nlargest(5, ...)
HeadN == 3          \* item_totals.head(3)
MidN == 4           \* iloc[len//2 : len//2 + 4]
TailN == 3          \* item_totals.tail(3)
Sentinel == 0       \* options = [0] + ..., format_func x == 0

Min(a, b) == IF a < b THEN a ELSE b
Max(a, b) == IF a > b THEN a ELSE b

\* ------------------------------------------------ the prediction tables
Row(i, s, q) == [item_id |-> i, shop_id |-> s, item_cnt_month |-> q]

SmallRows == [item_id : 0..MaxItem, shop_id : 1..MaxShop, item_cnt_month : 0..MaxQty]

SmallTables == UNION {[1..n -> SmallRows] : n \in 0..MaxRows}

\* MaxDeepRows rows of item 1 under shops 1, 1, 2, 2, 3, ..., except that the
\* middle row may be of item 2
DeepTables ==
    UNION {{[i \in 1..MaxDeepRows |->
                Row(IF i = MaxDeepRows \div 2 THEN it ELSE 1, (i + 1) \div 2, q[i])]
              : q \in [1..MaxDeepRows -> 0..MaxQty]}
           : it \in {1, 2}}

\* one row per item 1..n; item i sells i, except that at most one item sells
\* one more and so ties with its neighbour
WideTables ==
    UNION {UNION {{[i \in 1..n |-> Row(i, 1, IF i = b THEN i + 1 ELSE i)]}
                  : b \in 0..n}
           : n \in 1..MaxDistinct}

Tables == SmallTables \cup DeepTables \cup WideTables

QueryIds == 0..(MaxItem + 2)

VARIABLES
    df,             \* the loaded prediction table (load_data)
    sorted_totals,  \* what sort_values returns for this table on this build
    sample_items,   \* value returned by the latest get_sample_items call
    prev_sample,    \* value returned by the call before that
    calls,          \* number of get_sample_items calls so far, capped at 2
    options,        \* the selectbox options of the latest run of main
    item_id_input,  \* the selected value / the item_id argument of the lookup
    predict_button, \* whether the latest run was triggered by the button
    lookup,         \* whether predict_sales was called in the latest step
    result,         \* what predict_sales returned, None when not called
    shown           \* which of the three outcomes the latest run rendered

vars == <<df, sorted_totals, sample_items, prev_sample, calls, options,
          item_id_input, predict_button, lookup, result, shown>>

None == [tag |-> "None"]

\* ----------------------------------------------------------- predict_sales
\* df[df['item_id'] == item_id]: the matching rows, in table order, each
\* keeping its original index label
BoolIndex(frame, item_id) ==
    LET F[i \in 0..Len(frame)] ==
            IF i = 0 THEN <<>>
            ELSE IF frame[i].item_id = item_id
                 THEN Append(F[i - 1], [index |-> i - 1,
                                        item_id |-> frame[i].item_id,
                                        shop_id |-> frame[i].shop_id,
                                        item_cnt_month |-> frame[i].item_cnt_month])
                 ELSE F[i - 1]
    IN F[Len(frame)]

\* Series.sum()
ColumnSum(frame) ==
    LET S[i \in 0..Len(frame)] ==
            IF i = 0 THEN 0 ELSE S[i - 1] + frame[i].item_cnt_month
    IN S[Len(frame)]

RemoveAt(s, k) == [i \in 1..(Len(s) - 1) |-> IF i < k THEN s[i] ELSE s[i + 1]]

\* nlargest with keep='last': equal values in reverse order of appearance
RECURSIVE nlargest_last(_, _)
nlargest_last(frame, n) ==
    IF n = 0 \/ frame = <<>> THEN <<>>
    ELSE LET m == CHOOSE q \in {frame[i].item_cnt_month : i \in 1..Len(frame)} :
                      \A j \in 1..Len(frame) : frame[j].item_cnt_month <= q
             k == CHOOSE i \in 1..Len(frame) :
                      /\ frame[i].item_cnt_month = m
                      /\ \A j \in (i + 1)..Len(frame) : frame[j].item_cnt_month # m
         IN <<frame[k]>> \o nlargest_last(RemoveAt(frame, k), n - 1)

\* DataFrame.nlargest(n, 'item_cnt_month'), keep='first': the n largest in
\* descending order, equal values in order of appearance
RECURSIVE nlargest(_, _)
nlargest(frame, n) ==
    IF n = 0 \/ frame = <<>> THEN <<>>
    ELSE LET m == CHOOSE q \in {frame[i].item_cnt_month : i \in 1..Len(frame)} :
                      \A j \in 1..Len(frame) : frame[j].item_cnt_month <= q
             k == CHOOSE i \in 1..Len(frame) :
                      /\ frame[i].item_cnt_month = m
                      /\ \A j \in 1..(i - 1) : frame[j].item_cnt_month # m
         IN <<frame[k]>> \o nlargest(RemoveAt(frame, k), n - 1)

\* [['shop_id', 'item_cnt_month']]: column projection, index kept
ShopColumns(frame) ==
    [i \in 1..Len(frame) |-> [index |-> frame[i].index,
                              shop_id |-> frame[i].shop_id,
                              item_cnt_month |-> frame[i].item_cnt_month]]

\* predict_sales counting distinct shops (nunique) instead of rows
predict_sales_nunique(frame, item_id) ==
    LET item_predictions == BoolIndex(frame, item_id)
        total_sales == ColumnSum(item_predictions)
        n_shops == Cardinality({item_predictions[i].shop_id :
                                   i \in 1..Len(item_predictions)})
    IN IF Len(item_predictions) = 0 THEN None
       ELSE [tag |-> "dict",
             total_sales |-> total_sales,
             n_shops |-> n_shops,
             avg_per_shop |-> [num |-> total_sales, den |-> n_shops],
             top_shops |-> ShopColumns(nlargest(item_predictions, TopN))]

\* predict_sales testing the total for falsiness instead of the row count
predict_sales_falsy(frame, item_id) ==
    LET item_predictions == BoolIndex(frame, item_id)
        total_sales == ColumnSum(item_predictions)
        n_shops == Len(item_predictions)
    IN IF total_sales = 0 THEN None
       ELSE [tag |-> "dict",
             total_sales |-> total_sales,
             n_shops |-> n_shops,
             avg_per_shop |-> [num |-> total_sales, den |-> n_shops],
             top_shops |-> ShopColumns(nlargest(item_predictions, TopN))]

predict_sales(frame, item_id) ==
    LET item_predictions == BoolIndex(frame, item_id)
        total_sales == ColumnSum(item_predictions)
        n_shops == Len(item_predictions)
    IN IF Len(item_predictions) = 0 THEN None
       ELSE [tag |-> "dict",
             total_sales |-> total_sales,
             n_shops |-> n_shops,
             \* total_sales / n_shops, kept as the exact fraction
             avg_per_shop |-> [num |-> total_sales, den |-> n_shops],
             top_shops |-> ShopColumns(nlargest(item_predictions, TopN))]

\* -------------------------------------------------------- get_sample_items
ItemIds(frame) == {frame[i].item_id : i \in 1..Len(frame)}

ItemTotal(frame, it) == ColumnSum(BoolIndex(frame, it))

\* groupby('item_id')['item_cnt_month'].sum().reset_index(): one row per
\* distinct item, ascending by item_id
RECURSIVE GroupTotalsOf(_, _)
GroupTotalsOf(frame, S) ==
    IF S = {} THEN <<>>
    ELSE LET lo == CHOOSE x \in S : \A y \in S : x <= y
         IN <<[item_id |-> lo, item_cnt_month |-> ItemTotal(frame, lo)]>>
            \o GroupTotalsOf(frame, S \ {lo})

GroupTotals(frame) == GroupTotalsOf(frame, ItemIds(frame))

\* sort_values('item_cnt_month', ascending=False) with the default
\* kind='quicksort': descending by total, the order among equal totals is
\* whatever the build's unstable sort produces
RECURSIVE SortOutcomesOf(_, _)
SortOutcomesOf(g, S) ==
    IF S = {} THEN {<<>>}
    ELSE LET top == {i \in S : \A j \in S : g[j].item_cnt_month <= g[i].item_cnt_month}
         IN UNION {{<<g[i]>> \o o : o \in SortOutcomesOf(g, S \ {i})} : i \in top}

SortOutcomes(g) == UNION {SortOutcomesOf(v, 1..Len(v)) : v \in {g}}

\* the sort is deterministic on one build: every call on the session's table
\* returns the outcome fixed for it
sort_values(g) == sorted_totals

\* frame.iloc[a:b] for 0 <= a <= b: Python slicing clamps at the end
iloc(s, a, b) ==
    LET lo == Min(a, Len(s))
        hi == Min(b, Len(s))
    IN [i \in 1..Max(hi - lo, 0) |-> s[lo + i]]

head(s, n) == iloc(s, 0, n)

\* the last n rows, lowest first
tail_ascending(s, n) ==
    LET t == iloc(s, Max(Len(s) - n, 0), Len(s))
    IN [i \in 1..Len(t) |-> t[Len(t) + 1 - i]]

tail(s, n) == iloc(s, Max(Len(s) - n, 0), Len(s))

ItemIdColumn(s) == [i \in 1..Len(s) |-> s[i].item_id]

\* the middle slice one entry too long
mid_items_five(item_totals) ==
    ItemIdColumn(iloc(item_totals, Len(item_totals) \div 2,
                      Len(item_totals) \div 2 + MidN + 1))

\* the middle slice centred on the middle instead of starting there
mid_items_centred(item_totals) ==
    ItemIdColumn(iloc(item_totals, Max(Len(item_totals) \div 2 - 2, 0),
                      Max(Len(item_totals) \div 2 - 2, 0) + MidN))

mid_items(item_totals) ==
    ItemIdColumn(iloc(item_totals, Len(item_totals) \div 2,
                      Len(item_totals) \div 2 + MidN))

get_sample_items(frame) ==
    LET item_totals == sort_values(GroupTotals(frame))
        top_items == ItemIdColumn(head(item_totals, HeadN))
        low_items == ItemIdColumn(tail(item_totals, TailN))
    IN top_items \o mid_items(item_totals) \o low_items

\* ------------------------------------------------------------------- main
Range(s) == {s[i] : i \in 1..Len(s)}

RECURSIVE SortedList(_)
SortedList(S) ==
    IF S = {} THEN <<>>
    ELSE LET lo == CHOOSE x \in S : \A y \in S : x <= y
         IN <<lo>> \o SortedList(S \ {lo})

\* [0] + sample_items + [item for item in all_items if item not in sample_items]
Options(frame, sample) ==
    LET all_items == SortedList(ItemIds(frame))
    IN <<Sentinel>> \o sample
       \o SelectSeq(all_items, LAMBDA item : item \notin Range(sample))

\* the display with the first branch taken on the button alone
Display_unguarded(button, input) ==
    IF button
    THEN LET res == predict_sales(df, input)
         IN [lookup |-> TRUE, result |-> res,
             shown |-> IF res = None THEN {"notfound"} ELSE {"summary"}]
    ELSE [lookup |-> FALSE, result |-> None, shown |-> {}]

\* the result display, lines 143-221: which branch runs, whether it calls
\* predict_sales, and what it renders
Display(button, input) ==
    IF button /\ input # Sentinel
    THEN LET res == predict_sales(df, input)
         IN [lookup |-> TRUE, result |-> res,
             shown |-> IF res = None THEN {"notfound"} ELSE {"summary"}]
    ELSE IF button /\ input = Sentinel
         THEN [lookup |-> FALSE, result |-> None, shown |-> {"warning"}]
         ELSE [lookup |-> FALSE, result |-> None, shown |-> {}]

\* one run of the script with the given widget values, up to the footer
Run(input, button) ==
    LET sample == get_sample_items(df)
        out == Display(button, input)
    IN /\ sample_items' = sample
       /\ prev_sample' = sample_items
       /\ calls' = Min(calls + 1, 2)
       /\ options' = Options(df, sample)
       /\ item_id_input' = input
       /\ predict_button' = button
       /\ lookup' = out.lookup
       /\ result' = out.result
       /\ shown' = out.shown

\* the table's rows in descending order of quantity
SortRowsDesc(frame) ==
    LET indexed == [i \in 1..Len(frame) |->
                       [index |-> i - 1, item_id |-> frame[i].item_id,
                        shop_id |-> frame[i].shop_id,
                        item_cnt_month |-> frame[i].item_cnt_month]]
        sorted == nlargest(indexed, Len(frame))
    IN [i \in 1..Len(frame) |->
           Row(sorted[i].item_id, sorted[i].shop_id, sorted[i].item_cnt_month)]

\* main with the full listing sorted in place on the cached table instead of
\* on a filtered copy
main_inplace(input, button) ==
    /\ Run(input, button)
    /\ df' = IF "summary" \in Display(button, input).shown
             THEN SortRowsDesc(df) ELSE df
    /\ UNCHANGED sorted_totals

\* every frame the script modifies is a copy (boolean indexing, nlargest,
\* .copy()), so the cached table is left as loaded
main(input, button) ==
    /\ Run(input, button)
    /\ UNCHANGED <<df, sorted_totals>>

\* the state after the first run of the script: table loaded, the selectbox
\* on its first option, the button not pressed
Init ==
    /\ df \in Tables
    /\ sorted_totals \in SortOutcomes(GroupTotals(df))
    /\ sample_items = get_sample_items(df)
    /\ prev_sample = <<>>
    /\ calls = 1
    /\ options = Options(df, sample_items)
    /\ item_id_input = options[1]
    /\ predict_button = FALSE
    /\ lookup = FALSE
    /\ result = None
    /\ shown = {}

\* the user picks an entry of the selectbox: a rerun without the button
SelectItem == \E i \in 1..Len(options) : main(options[i], FALSE)

\* the user presses Predict Sales: a rerun with the button set
ClickPredict == main(item_id_input, TRUE)

Next == SelectItem \/ ClickPredict

Spec == Init /\ [][Next]_vars

\* direct calls of the two functions, with any item_id
CallPredict ==
    \E id \in QueryIds :
        /\ item_id_input' = id
        /\ lookup' = TRUE
        /\ result' = predict_sales(df, id)
        /\ UNCHANGED <<df, sorted_totals, sample_items, prev_sample, calls,
                       options, predict_button, shown>>

CallSample ==
    /\ sample_items' = get_sample_items(df)
    /\ prev_sample' = sample_items
    /\ calls' = Min(calls + 1, 2)
    /\ UNCHANGED <<df, sorted_totals, options, item_id_input, predict_button,
                   lookup, result, shown>>

NextFn == CallPredict \/ CallSample

SpecFn == Init /\ [][NextFn]_vars

\* ================================================================ claims
\* the rows of the table whose item_id is it (1-based positions)
MatchingIdx(it) == {i \in 1..Len(df) : df[i].item_id = it}

RECURSIVE QtyOver(_)
QtyOver(S) ==
    IF S = {} THEN 0
    ELSE LET i == CHOOSE x \in S : TRUE
         IN df[i].item_cnt_month + QtyOver(S \ {i})

TotalOf(it) == QtyOver(MatchingIdx(it))

Count == Cardinality(ItemIds(df))

TopLen == Min(HeadN, Count)
MidLen == Min(MidN, Count - (Count \div 2))
LowLen == Min(TailN, Count)

NoDuplicates(s) == \A i, j \in 1..Len(s) : i # j => s[i] # s[j]

\* C1: after predict_sales(df, item_id) for an item_id with at least one row,
\* n_shops is the number of rows with that item_id and total_sales is the sum
\* of item_cnt_month over exactly those rows
Thm_C1 ==
    (lookup /\ MatchingIdx(item_id_input) # {}) =>
        /\ result # None
        /\ result.n_shops = Cardinality(MatchingIdx(item_id_input))
        /\ result.total_sales = QtyOver(MatchingIdx(item_id_input))

\* a lookup of an item with two rows under the same shop, in a table that
\* also holds a selling row of another item
Wit_C1 ==
    /\ lookup
    /\ result # None
    /\ \E i, j \in MatchingIdx(item_id_input) :
           i # j /\ df[i].shop_id = df[j].shop_id
    /\ \E i \in 1..Len(df) :
           df[i].item_id # item_id_input /\ df[i].item_cnt_month > 0

\* C2: predict_sales returns None if and only if no row of the table has the
\* queried item_id
Thm_C2 ==
    lookup => ((result = None) <=> (MatchingIdx(item_id_input) = {}))

\* a lookup of an absent item_id in a non-empty table returned None
Wit_C2 ==
    /\ lookup
    /\ Len(df) > 0
    /\ MatchingIdx(item_id_input) = {}
    /\ result = None

\* C3: top_shops is the first min(5, shop_count) entries of the matching rows
\* stably sorted by descending item_cnt_month: right length, every entry a
\* matching row, non-increasing, equal quantities in table order, and no
\* left-out matching row should precede an entry
Thm_C3 ==
    (lookup /\ result # None) =>
        LET t == result.top_shops
            M == MatchingIdx(item_id_input)
            picked == {t[k].index + 1 : k \in 1..Len(t)}
        IN /\ Len(t) = Min(TopN, Cardinality(M))
           /\ \A k \in 1..Len(t) :
                  /\ t[k].index + 1 \in M
                  /\ t[k].shop_id = df[t[k].index + 1].shop_id
                  /\ t[k].item_cnt_month = df[t[k].index + 1].item_cnt_month
           /\ \A k, l \in 1..Len(t) :
                  k < l => \/ t[k].item_cnt_month > t[l].item_cnt_month
                           \/ /\ t[k].item_cnt_month = t[l].item_cnt_month
                              /\ t[k].index < t[l].index
           /\ \A i \in M \ picked : \A k \in 1..Len(t) :
                  \/ df[i].item_cnt_month < t[k].item_cnt_month
                  \/ /\ df[i].item_cnt_month = t[k].item_cnt_month
                     /\ i - 1 > t[k].index

\* a lookup of an item with more than five rows, where a left-out row ties
\* with the last entry, two entries tie, and a larger row comes after a
\* smaller one in the table
Wit_C3 ==
    /\ lookup
    /\ result # None
    /\ Cardinality(MatchingIdx(item_id_input)) > TopN
    /\ Len(result.top_shops) = TopN
    /\ \E i \in MatchingIdx(item_id_input) :
           /\ \A k \in 1..TopN : result.top_shops[k].index # i - 1
           /\ df[i].item_cnt_month = result.top_shops[TopN].item_cnt_month
    /\ result.top_shops[1].item_cnt_month = result.top_shops[2].item_cnt_month
    /\ result.top_shops[1].index > result.top_shops[TopN].index

\* the first TopLen entries are the highest-selling items, by descending total
TopGroupOk ==
    /\ \A k, l \in 1..TopLen :
           k < l => /\ sample_items[k] # sample_items[l]
                    /\ TotalOf(sample_items[k]) >= TotalOf(sample_items[l])
    /\ \A k \in 1..TopLen : \A x \in ItemIds(df) :
           x \notin {sample_items[j] : j \in 1..TopLen} =>
               TotalOf(x) <= TotalOf(sample_items[k])

\* the last LowLen entries are the lowest-selling items
LowGroupLowest ==
    LET off == Len(sample_items) - LowLen
    IN /\ \A k, l \in 1..LowLen :
              k < l => sample_items[off + k] # sample_items[off + l]
       /\ \A k \in 1..LowLen : \A x \in ItemIds(df) :
              x \notin {sample_items[off + j] : j \in 1..LowLen} =>
                  TotalOf(x) >= TotalOf(sample_items[off + k])

\* C4 as stated: the result is [top3, mid4, bottom3] with top3 by descending
\* total and bottom3 the three lowest-selling items by ascending total
\* (stated for tables with at least ten distinct items)
Orig_C4 ==
    Count >= HeadN + MidN + TailN =>
        /\ Len(sample_items) = TopLen + MidLen + LowLen
        /\ TopGroupOk
        /\ LowGroupLowest
        /\ \A k, l \in 1..LowLen :
               k < l => TotalOf(sample_items[Len(sample_items) - LowLen + k])
                        <= TotalOf(sample_items[Len(sample_items) - LowLen + l])

\* C4 amended: the result is [top3, mid4, bottom3] with top3 the highest
\* totals by descending total and bottom3 the lowest-selling items listed by
\* descending total, the lowest last
Thm_C4 ==
    /\ Len(sample_items) = TopLen + MidLen + LowLen
    /\ TopGroupOk
    /\ LowGroupLowest
    /\ \A k, l \in 1..LowLen :
           k < l => TotalOf(sample_items[Len(sample_items) - LowLen + k])
                    >= TotalOf(sample_items[Len(sample_items) - LowLen + l])

\* get_sample_items was called again on a table of at least fourteen items
\* with distinct totals among the three lowest: the groups do not overlap
Wit_C4 ==
    /\ calls = 2
    /\ Count >= 14
    /\ Len(sample_items) = HeadN + MidN + TailN
    /\ NoDuplicates(sample_items)
    /\ TotalOf(sample_items[8]) > TotalOf(sample_items[9])
    /\ TotalOf(sample_items[9]) > TotalOf(sample_items[10])

\* C5: for a non-empty table get_sample_items returns at most 10 item_ids,
\* each one present in the table
Thm_C5 ==
    Len(df) > 0 =>
        /\ Len(sample_items) <= 10
        /\ \A k \in 1..Len(sample_items) : sample_items[k] \in ItemIds(df)

\* get_sample_items was called again on a table with two distinct items: the
\* slices came out short and overlapping
Wit_C5 ==
    /\ calls = 2
    /\ Count = 2
    /\ Len(sample_items) = 5
    /\ ~NoDuplicates(sample_items)

\* C6 as stated: for a non-empty table the selection list is the sentinel
\* followed by the items, no value occurs twice and every item_id of the
\* table occurs in it
Orig_C6 ==
    Len(df) > 0 =>
        /\ options[1] = Sentinel
        /\ NoDuplicates(options)
        /\ \A it \in ItemIds(df) : \E i \in 1..Len(options) : options[i] = it

\* C7: the button with the sentinel selected renders the warning only and
\* looks nothing up; the button with another value renders exactly one of
\* summary and not-found; without the button nothing is rendered
Thm_C7 ==
    /\ (predict_button /\ item_id_input = Sentinel) =>
           (shown = {"warning"} /\ ~lookup /\ result = None)
    /\ (predict_button /\ item_id_input # Sentinel) =>
           /\ lookup
           /\ shown \in {{"summary"}, {"notfound"}}
           /\ ("summary" \in shown) <=> (result # None)
    /\ ~predict_button => shown = {}

\* the button was pressed on the sentinel of a table that has rows
Wit_C7 ==
    /\ predict_button
    /\ item_id_input = Sentinel
    /\ shown = {"warning"}
    /\ Len(df) > 0

\* C8: the middle group is the entries at 0-based positions floor(count/2) ..
\* floor(count/2)+3 of the items sorted by descending total, cut at the end
\* of the sequence, and a repeated call returns the same sequence
Thm_C8 ==
    /\ Len(sorted_totals) = Count
    /\ \A i \in 1..Count :
           /\ sorted_totals[i].item_id \in ItemIds(df)
           /\ sorted_totals[i].item_cnt_month = TotalOf(sorted_totals[i].item_id)
    /\ \A i, j \in 1..Count :
           i < j => /\ sorted_totals[i].item_id # sorted_totals[j].item_id
                    /\ sorted_totals[i].item_cnt_month >= sorted_totals[j].item_cnt_month
    /\ Len(sample_items) = TopLen + MidLen + LowLen
    /\ \A k \in 1..MidLen :
           sample_items[TopLen + k] = sorted_totals[(Count \div 2) + k].item_id
    /\ calls >= 2 => sample_items = prev_sample

\* a repeated call on a table with an odd number of items, at least nine,
\* two of the four middle ones tied
Wit_C8 ==
    /\ calls = 2
    /\ Count >= 9
    /\ Count % 2 = 1
    /\ MidLen = MidN
    /\ TotalOf(sample_items[TopLen + 1]) = TotalOf(sample_items[TopLen + 2])
    /\ sample_items = prev_sample

\* C9: no run of the script changes the prediction table, and pressing
\* Predict again on the same selection gives the same result
Thm_C9 ==
    [][/\ df' = df
       /\ (predict_button /\ predict_button' /\ item_id_input' = item_id_input)
              => result' = result]_vars

\* a summary with its top shops was rendered for an item whose rows are not
\* in descending order of quantity
Wit_C9 ==
    /\ predict_button
    /\ shown = {"summary"}
    /\ \E i, j \in MatchingIdx(item_id_input) :
           i < j /\ df[i].item_cnt_month < df[j].item_cnt_month

\* C10 as stated: every item_id of the table is offered, pressing Predict on
\* it renders its summary, every non-sentinel value offered is in the table,
\* and the not-found message is never rendered
Orig_C10 ==
    /\ \A it \in ItemIds(df) : \E i \in 1..Len(options) : options[i] = it
    /\ (predict_button /\ item_id_input \in ItemIds(df)) => shown = {"summary"}
    /\ \A i \in 1..Len(options) :
           options[i] # Sentinel => options[i] \in ItemIds(df)
    /\ "notfound" \notin shown

====
